---- MODULE Spec2Model ----
(***************************************************************************)
(* A model of object_condition_checker.py: ObjectCondition (a typed        *)
(* comparison of one attribute of an object) and ConditionList (an         *)
(* and/or combination of conditions and nested lists), with their          *)
(* evaluation (is_true) and their serialisation (dict / from_json).        *)
(*                                                                         *)
(* Python text is modelled as a sequence of one-character strings, so that *)
(* str(), int(), float() and parse_datetime are computed character by      *)
(* character.  A Python value is a record tagged with its class in field t.*)
(* A call either returns a value, Ok(v), or raises, Raise(class, message). *)
(* JSON text (json.loads / json.dumps) is outside the model: from_json is  *)
(* given, and dict returns, Python dictionaries.                           *)
(***************************************************************************)
EXTENDS Integers, Sequences, FiniteSets, TLC

VARIABLES
    tz,     \* the UTC offset (seconds) of the local time zone of the process
    held,   \* the conditions and lists the caller has constructed, newest last
    last    \* the latest call: its name, receiver, arguments and outcome

vars == <<tz, held, last>>

----------------------------------------------------------------------------
(* Bounds of the model *)

\* the largest number of nodes (conditions and lists) the caller holds,
\* counting the nodes nested inside the lists
MaxNodes == 3

\* the largest number of entries under "conditions" in a dictionary given
\* to from_json
MaxEntries == 2

----------------------------------------------------------------------------
(* Outcomes of a call *)

Ok(v) == [ok |-> TRUE, val |-> v]
\* an exception of class e; msg names the raise statement it comes from
Raise(e, msg) == [ok |-> FALSE, exc |-> e, msg |-> msg]

----------------------------------------------------------------------------
(* Python values *)

None == [t |-> "NoneType"]
PyStr(s) == [t |-> "str", s |-> s]
PyInt(i) == [t |-> "int", i |-> i]
PyBool(b) == [t |-> "bool", b |-> b]
\* a float is (-1)^neg * m / 10^e, with no trailing zero in the fraction
PyFloat(neg, m, e) == [t |-> "float", neg |-> neg, m |-> m, e |-> e]
PyDate(y, mo, d) == [t |-> "date", y |-> y, mo |-> mo, d |-> d]
PyTime(hh, mi, ss, us) == [t |-> "time", hh |-> hh, mi |-> mi, ss |-> ss, us |-> us]
PyDateTime(y, mo, d, hh, mi, ss, us) ==
    [t |-> "datetime", y |-> y, mo |-> mo, d |-> d,
     hh |-> hh, mi |-> mi, ss |-> ss, us |-> us]
PyList(items) == [t |-> "list", items |-> items]

\* issubclass(a, b) for the classes above: bool derives from int and
\* datetime derives from date
IsSubclass(a, b) ==
    \/ a = b
    \/ a = "bool" /\ b = "int"
    \/ a = "datetime" /\ b = "date"

\* isinstance(v, cls)
IsInstance(v, cls) == IsSubclass(v.t, cls)

----------------------------------------------------------------------------
(* Text *)

Digits == <<"0", "1", "2", "3", "4", "5", "6", "7", "8", "9">>

IsDigitChar(c) == \E i \in 1..10 : Digits[i] = c

DigitVal(c) == (CHOOSE i \in 1..10 : Digits[i] = c) - 1

RECURSIVE Pow10(_)
Pow10(n) == IF n = 0 THEN 1 ELSE 10 * Pow10(n - 1)

\* the decimal digits of a natural number
RECURSIVE NatStr(_)
NatStr(n) ==
    IF n < 10 THEN <<Digits[n + 1]>>
    ELSE NatStr(n \div 10) \o <<Digits[(n % 10) + 1]>>

\* n in decimal, zero-padded on the left to at least w characters (%0wd)
RECURSIVE ZeroPad(_, _)
ZeroPad(n, w) ==
    IF w <= 1 THEN NatStr(n)
    ELSE IF n < Pow10(w - 1) THEN <<"0">> \o ZeroPad(n, w - 1)
    ELSE NatStr(n)

\* the value of a non-empty run of decimal digits
RECURSIVE NatOfDigits(_)
NatOfDigits(s) ==
    IF Len(s) = 0 THEN 0
    ELSE 10 * NatOfDigits(SubSeq(s, 1, Len(s) - 1)) + DigitVal(s[Len(s)])

AllDigits(s) == \A i \in 1..Len(s) : IsDigitChar(s[i])

\* str.isdigit(): non-empty and every character a digit
IsDigit(s) == Len(s) > 0 /\ AllDigits(s)

\* c in s, for a character c
HasChar(s, c) == \E i \in 1..Len(s) : s[i] = c

\* s.replace(c, '', 1): s without the first occurrence of c
RemoveFirst(s, c) ==
    IF HasChar(s, c)
    THEN LET i == CHOOSE k \in 1..Len(s) :
                      s[k] = c /\ \A j \in 1..(k - 1) : s[j] # c
         IN SubSeq(s, 1, i - 1) \o SubSeq(s, i + 1, Len(s))
    ELSE s

\* s.strip(), for the blank
RECURSIVE Strip(_)
Strip(s) ==
    IF Len(s) = 0 THEN s
    ELSE IF s[1] = " " THEN Strip(Tail(s))
    ELSE IF s[Len(s)] = " " THEN Strip(SubSeq(s, 1, Len(s) - 1))
    ELSE s

----------------------------------------------------------------------------
(* str(value), as ObjectCondition.dict applies it to the stored value *)

StrOfInt(i) == IF i < 0 THEN <<"-">> \o NatStr(-i) ELSE NatStr(i)

\* repr of a float in positional notation: at least one fraction digit
StrOfFloat(f) ==
    (IF f.neg THEN <<"-">> ELSE <<>>)
        \o NatStr(f.m \div Pow10(f.e))
        \o <<".">>
        \o (IF f.e = 0 THEN <<"0">> ELSE ZeroPad(f.m % Pow10(f.e), f.e))

\* date.__str__ is isoformat(): YYYY-MM-DD
StrOfDate(v) ==
    ZeroPad(v.y, 4) \o <<"-">> \o ZeroPad(v.mo, 2) \o <<"-">> \o ZeroPad(v.d, 2)

\* time.__str__ is isoformat(): HH:MM:SS, then .ffffff when microsecond # 0
StrOfTime(v) ==
    ZeroPad(v.hh, 2) \o <<":">> \o ZeroPad(v.mi, 2) \o <<":">> \o ZeroPad(v.ss, 2)
        \o (IF v.us = 0 THEN <<>> ELSE <<".">> \o ZeroPad(v.us, 6))

\* datetime.__str__ is isoformat(sep=' ')
StrOfDateTime(v) == StrOfDate(v) \o <<" ">> \o StrOfTime(v)

\* str(v) for the values a condition stores or is given
PyStrOf(v) ==
    CASE v.t = "str" -> v.s
      [] v.t = "int" -> StrOfInt(v.i)
      [] v.t = "float" -> StrOfFloat(v)
      [] v.t = "date" -> StrOfDate(v)
      [] v.t = "time" -> StrOfTime(v)
      [] v.t = "datetime" -> StrOfDateTime(v)

----------------------------------------------------------------------------
(* int(value) and float(value), over text without underscores, exponents,  *)
(* inf or nan                                                              *)

HasSign(s) == Len(s) > 0 /\ s[1] \in {"+", "-"}

Unsigned(s) == IF HasSign(s) THEN Tail(s) ELSE s

\* int(text): blanks stripped, an optional sign, then digits
IntOfStr(s) ==
    LET b == Strip(s)
        u == Unsigned(b)
    IN IF IsDigit(u)
       THEN Ok(PyInt(IF b[1] = "-" THEN -NatOfDigits(u) ELSE NatOfDigits(u)))
       ELSE Raise("ValueError", "invalid literal for int()")

\* int(attribute_value), line 52
IntOf(v) ==
    CASE v.t = "str" -> IntOfStr(v.s)
      [] v.t = "int" -> Ok(v)
      [] OTHER -> Raise("TypeError", "int() argument must be a string or a number")

\* m / 10^e without trailing zeros in the fraction
RECURSIVE Normalize(_, _, _)
Normalize(neg, m, e) ==
    IF e > 0 /\ m % 10 = 0 THEN Normalize(neg, m \div 10, e - 1)
    ELSE PyFloat(neg, m, e)

\* float(text): blanks stripped, an optional sign, digits with at most one
\* point and at least one digit
FloatOfStr(s) ==
    LET b == Strip(s)
        u == Unsigned(b)
        d == RemoveFirst(u, ".")
        e == IF HasChar(u, ".")
             THEN Len(u) - (CHOOSE k \in 1..Len(u) :
                                u[k] = "." /\ \A j \in 1..(k - 1) : u[j] # ".")
             ELSE 0
    IN IF IsDigit(d)
       THEN Ok(Normalize(Len(b) > 0 /\ b[1] = "-", NatOfDigits(d), e))
       ELSE Raise("ValueError", "could not convert string to float")

\* float(attribute_value), line 57
FloatOf(v) ==
    CASE v.t = "str" -> FloatOfStr(v.s)
      [] v.t = "int" -> Ok(PyFloat(v.i < 0, IF v.i < 0 THEN -v.i ELSE v.i, 0))
      [] OTHER -> Raise("TypeError", "float() argument must be a string or a number")

----------------------------------------------------------------------------
(* The calendar *)

IsLeap(y) == (y % 4 = 0 /\ y % 100 # 0) \/ y % 400 = 0

DaysInMonth(y, mo) ==
    IF mo = 2 THEN (IF IsLeap(y) THEN 29 ELSE 28)
    ELSE IF mo \in {4, 6, 9, 11} THEN 30 ELSE 31

\* the proleptic Gregorian date of a day counted from 1970-01-01
CivilFromDays(days) ==
    LET z == days + 719468
        era == z \div 146097
        doe == z - era * 146097
        yoe == (doe - doe \div 1460 + doe \div 36524 - doe \div 146096) \div 365
        doy == doe - (365 * yoe + yoe \div 4 - yoe \div 100)
        mp == (5 * doy + 2) \div 153
        d == doy - (153 * mp + 2) \div 5 + 1
        mo == IF mp < 10 THEN mp + 3 ELSE mp - 9
        y == yoe + era * 400 + (IF mo <= 2 THEN 1 ELSE 0)
    IN [y |-> y, mo |-> mo, d |-> d]

\* datetime.fromtimestamp(timestamp), line 173: the local date and time of
\* a non-negative number of seconds since the epoch, to the microsecond
FromTimestamp(f) ==
    LET whole == f.m \div Pow10(f.e)
        frac == f.m % Pow10(f.e)
        cut == IF f.e > 6 THEN Pow10(f.e - 6) ELSE 1
        q == IF f.e > 6 THEN frac \div cut ELSE frac * Pow10(6 - f.e)
        r == IF f.e > 6 THEN frac % cut ELSE 0
        up == 2 * r > cut \/ (2 * r = cut /\ q % 2 = 1)
        us == IF up THEN q + 1 ELSE q
        secs == whole + (IF us = 1000000 THEN 1 ELSE 0) + tz
        day == CivilFromDays(secs \div 86400)
        sod == secs % 86400
    IN PyDateTime(day.y, day.mo, day.d,
                  sod \div 3600, (sod % 3600) \div 60, sod % 60, us % 1000000)

\* the time part of datetime.fromisoformat: HH, HH:MM, HH:MM:SS or
\* HH:MM:SS.f..., the fraction cut to microseconds
TimeOfIso(s) ==
    LET n == Len(s)
        shape == /\ n \in {2, 5, 8} \/ n >= 10
                 /\ AllDigits(SubSeq(s, 1, 2))
                 /\ n >= 5 => s[3] = ":" /\ AllDigits(SubSeq(s, 4, 5))
                 /\ n >= 8 => s[6] = ":" /\ AllDigits(SubSeq(s, 7, 8))
                 /\ n >= 10 => s[9] = "." /\ AllDigits(SubSeq(s, 10, n))
        hh == NatOfDigits(SubSeq(s, 1, 2))
        mi == IF n >= 5 THEN NatOfDigits(SubSeq(s, 4, 5)) ELSE 0
        ss == IF n >= 8 THEN NatOfDigits(SubSeq(s, 7, 8)) ELSE 0
        fr == IF n >= 10 THEN SubSeq(s, 10, IF n > 15 THEN 15 ELSE n) ELSE <<>>
        us == NatOfDigits(fr) * Pow10(6 - Len(fr))
    IN IF shape /\ hh < 24 /\ mi < 60 /\ ss < 60
       THEN Ok(PyTime(hh, mi, ss, us))
       ELSE Raise("ValueError", "Invalid isoformat string")

\* datetime.fromisoformat(text), lines 176 and 178, for text in the
\* extended format without a UTC offset: YYYY-MM-DD, one separator
\* character, and a time
FromIsoFormat(s) ==
    LET n == Len(s)
        shape == /\ n >= 12
                 /\ AllDigits(SubSeq(s, 1, 4)) /\ s[5] = "-"
                 /\ AllDigits(SubSeq(s, 6, 7)) /\ s[8] = "-"
                 /\ AllDigits(SubSeq(s, 9, 10))
        y == NatOfDigits(SubSeq(s, 1, 4))
        mo == NatOfDigits(SubSeq(s, 6, 7))
        d == NatOfDigits(SubSeq(s, 9, 10))
        tm == TimeOfIso(SubSeq(s, 12, n))
    IN IF ~shape THEN Raise("ValueError", "Invalid isoformat string")
       ELSE IF ~(y >= 1 /\ mo \in 1..12 /\ d >= 1 /\ d <= DaysInMonth(y, mo))
       THEN Raise("ValueError", "date value out of range")
       ELSE IF ~tm.ok THEN tm
       ELSE Ok(PyDateTime(y, mo, d, tm.val.hh, tm.val.mi, tm.val.ss, tm.val.us))

Midnight == <<"T", "0", "0", ":", "0", "0", ":", "0", "0">>

\* ObjectCondition.parse_datetime
ParseDatetime(value) ==
    IF value.t # "str" THEN Raise("AttributeError", "object has no attribute 'replace'")
    ELSE IF IsDigit(RemoveFirst(value.s, "."))
    THEN LET timestamp == FloatOfStr(value.s)
         IN IF timestamp.ok THEN Ok(FromTimestamp(timestamp.val)) ELSE timestamp
    ELSE IF HasChar(value.s, "-") /\ (HasChar(value.s, "T") \/ Len(value.s) = 10)
    THEN IF Len(value.s) = 10
         THEN FromIsoFormat(value.s \o Midnight)
         ELSE FromIsoFormat(value.s)
    ELSE Raise("ValueError", "Input is not a recognized Unix timestamp or ISO datetime format.")

\* datetime.date() and datetime.time()
DateOf(v) == PyDate(v.y, v.mo, v.d)
TimeOf(v) == PyTime(v.hh, v.mi, v.ss, v.us)

----------------------------------------------------------------------------
(* Comparison of Python values *)

\* the characters of the model's text, in code point order
Alphabet ==
    <<" ", "+", "-", ".", "0", "1", "2", "3", "4", "5", "6", "7", "8", "9",
      ":", "T", "i", "n", "o", "t", "x", "y">>

Ord(c) == CHOOSE i \in 1..Len(Alphabet) : Alphabet[i] = c

\* the order of two sequences of integers: -1, 0 or 1
RECURSIVE SeqCmp(_, _)
SeqCmp(a, b) ==
    IF Len(a) = 0 /\ Len(b) = 0 THEN 0
    ELSE IF Len(a) = 0 THEN -1
    ELSE IF Len(b) = 0 THEN 1
    ELSE IF a[1] < b[1] THEN -1
    ELSE IF a[1] > b[1] THEN 1
    ELSE SeqCmp(Tail(a), Tail(b))

\* what a value is ordered by, among values of its class
SortKey(v) ==
    CASE v.t = "str" -> [i \in 1..Len(v.s) |-> Ord(v.s[i])]
      [] v.t = "int" -> <<v.i>>
      [] v.t = "bool" -> <<IF v.b THEN 1 ELSE 0>>
      [] v.t = "date" -> <<v.y, v.mo, v.d>>
      [] v.t = "time" -> <<v.hh, v.mi, v.ss, v.us>>
      [] v.t = "datetime" -> <<v.y, v.mo, v.d, v.hh, v.mi, v.ss, v.us>>

\* a float times 10^e, signed
Scaled(f, e) == (IF f.neg THEN -1 ELSE 1) * f.m * Pow10(e - f.e)

FloatCmp(a, b) ==
    LET e == IF a.e > b.e THEN a.e ELSE b.e
    IN SeqCmp(<<Scaled(a, e)>>, <<Scaled(b, e)>>)

Cmp(a, b) ==
    IF a.t = "float" THEN FloatCmp(a, b) ELSE SeqCmp(SortKey(a), SortKey(b))

\* a <op> b for a value a that is an instance of b's class.  A datetime and
\* a date are never equal and do not order.
Compare(op, a, b) ==
    IF a.t = "datetime" /\ b.t = "date"
    THEN CASE op = "==" -> Ok(PyBool(FALSE))
           [] op = "!=" -> Ok(PyBool(TRUE))
           [] OTHER -> Raise("TypeError", "can't compare datetime.datetime to datetime.date")
    ELSE CASE op = "<" -> Ok(PyBool(Cmp(a, b) < 0))
           [] op = ">" -> Ok(PyBool(Cmp(a, b) > 0))
           [] op = "<=" -> Ok(PyBool(Cmp(a, b) <= 0))
           [] op = ">=" -> Ok(PyBool(Cmp(a, b) >= 0))
           [] op = "==" -> Ok(PyBool(Cmp(a, b) = 0))
           [] op = "!=" -> Ok(PyBool(Cmp(a, b) # 0))

----------------------------------------------------------------------------
(* class ObjectCondition *)

_accepted_comp_operators_strings == {"==", "!=", "in", "not in"}
_accepted_comp_operators_numbers == {"<", ">", "<=", ">=", "==", "!="}
_accepted_comp_operators_lists == {"in", "not in"}
_accepted_comp_operators ==
    _accepted_comp_operators_strings
        \cup _accepted_comp_operators_numbers
        \cup _accepted_comp_operators_lists
_accepted_value_types == {"str", "int", "float", "date", "datetime", "time"}

\* the instance __init__ leaves behind
Condition(attribute_name, comp_operator, attribute_value, value_type) ==
    [t |-> "ObjectCondition",
     attribute_name |-> attribute_name,
     comp_operator |-> comp_operator,
     attribute_value |-> attribute_value,
     value_type |-> value_type]

\* the conversion of the raw value to the declared type, lines 47 to 72
ConvertValue(attribute_value, value_type) ==
    CASE value_type = "str" -> Ok(PyStr(PyStrOf(attribute_value)))
      [] value_type = "int" -> IntOf(attribute_value)
      [] value_type = "float" -> FloatOf(attribute_value)
      [] value_type = "date" ->
            LET dt == ParseDatetime(attribute_value)
            IN IF dt.ok THEN Ok(DateOf(dt.val)) ELSE dt
      [] value_type = "time" ->
            LET dt == ParseDatetime(attribute_value)
            IN IF dt.ok THEN Ok(TimeOf(dt.val)) ELSE dt
      [] value_type = "datetime" -> ParseDatetime(attribute_value)

\* __init__ with lines 45, 50, 55, 60, 65 and 70 left out: any accepted
\* operator with any value type
CondInitAnyOperator(attribute_name, comp_operator, attribute_value, value_type) ==
    IF value_type \notin _accepted_value_types
    THEN Raise("ValueError", "Value type is not accepted")
    ELSE IF comp_operator \notin _accepted_comp_operators
    THEN Raise("ValueError", "Comp operators not supported")
    ELSE LET v == ConvertValue(attribute_value, value_type)
         IN IF v.ok
            THEN Ok(Condition(attribute_name, comp_operator, v.val, value_type))
            ELSE v

\* ObjectCondition.__init__
CondInit(attribute_name, comp_operator, attribute_value, value_type) ==
    IF value_type \notin _accepted_value_types
    THEN Raise("ValueError", "Value type is not accepted")
    ELSE IF comp_operator \notin _accepted_comp_operators
    THEN Raise("ValueError", "Comp operators not supported")
    ELSE IF value_type = "str"
            /\ comp_operator \notin _accepted_comp_operators_strings
    THEN Raise("ValueError", "Comp operator not supported for strings")
    ELSE IF value_type # "str"
            /\ comp_operator \notin _accepted_comp_operators_numbers
    THEN Raise("ValueError", "Comp operator not supported for numbers")
    ELSE LET v == ConvertValue(attribute_value, value_type)
         IN IF v.ok
            THEN Ok(Condition(attribute_name, comp_operator, v.val, value_type))
            ELSE v

InText == <<"i", "n">>
NotInText == <<"n", "o", "t", " ", "i", "n">>

\* value in ("in", "not in"): equality with an element of the tuple
InOperatorsLists(value) == value.t = "str" /\ value.s \in {InText, NotInText}

\* is_true with line 90 testing type(test_value) is type(value) instead of
\* isinstance
CondIsTrueExactType(self, obj) ==
    IF self.attribute_name \notin DOMAIN obj
    THEN Raise("AttributeError", "Object has no attribute")
    ELSE LET test_value == obj[self.attribute_name]
         IN IF test_value.t # self.attribute_value.t
            THEN Raise("TypeError", "attribute type is not type")
            ELSE CASE self.comp_operator = "in" ->
                        Ok(PyBool(InOperatorsLists(test_value)))
                   [] self.comp_operator = "not in" ->
                        Ok(PyBool(~InOperatorsLists(test_value)))
                   [] self.comp_operator \in _accepted_comp_operators_numbers ->
                        Compare(self.comp_operator, test_value, self.attribute_value)
                   [] OTHER -> Raise("Exception", "Unknown comparison operator")

\* ObjectCondition.is_true; obj maps the names of its attributes to values
CondIsTrue(self, obj) ==
    IF self.attribute_name \notin DOMAIN obj
    THEN Raise("AttributeError", "Object has no attribute")
    ELSE LET test_value == obj[self.attribute_name]
         IN IF ~IsInstance(test_value, self.attribute_value.t)
            THEN Raise("TypeError", "attribute type is not type")
            ELSE CASE self.comp_operator = "in" ->
                        Ok(PyBool(InOperatorsLists(test_value)))
                   [] self.comp_operator = "not in" ->
                        Ok(PyBool(~InOperatorsLists(test_value)))
                   [] self.comp_operator \in _accepted_comp_operators_numbers ->
                        Compare(self.comp_operator, test_value, self.attribute_value)
                   [] OTHER -> Raise("Exception", "Unknown comparison operator")

PyDict(kv) == [t |-> "dict", kv |-> kv]

\* ObjectCondition.dict
CondDict(self) ==
    PyDict([attribute_name |-> self.attribute_name,
            comp_operator |-> self.comp_operator,
            attribute_value |-> PyStr(PyStrOf(self.attribute_value)),
            value_type |-> self.value_type])

\* from_json reading the operator with data.get("comp_operator", "==")
CondFromJsonLenient(data) ==
    IF data.t # "dict"
    THEN Raise("ValueError", "Input must be a JSON string or a dictionary.")
    ELSE IF "attribute_name" \notin DOMAIN data.kv
    THEN Raise("KeyError", "attribute_name")
    ELSE IF "attribute_value" \notin DOMAIN data.kv
    THEN Raise("KeyError", "attribute_value")
    ELSE IF "value_type" \notin DOMAIN data.kv
    THEN Raise("KeyError", "value_type")
    ELSE CondInit(data.kv.attribute_name,
                  IF "comp_operator" \in DOMAIN data.kv
                  THEN data.kv.comp_operator ELSE "==",
                  data.kv.attribute_value, data.kv.value_type)

\* ObjectCondition.from_json, for data that is no JSON text
CondFromJson(data) ==
    IF data.t # "dict"
    THEN Raise("ValueError", "Input must be a JSON string or a dictionary.")
    ELSE IF "attribute_name" \notin DOMAIN data.kv
    THEN Raise("KeyError", "attribute_name")
    ELSE IF "comp_operator" \notin DOMAIN data.kv
    THEN Raise("KeyError", "comp_operator")
    ELSE IF "attribute_value" \notin DOMAIN data.kv
    THEN Raise("KeyError", "attribute_value")
    ELSE IF "value_type" \notin DOMAIN data.kv
    THEN Raise("KeyError", "value_type")
    ELSE CondInit(data.kv.attribute_name, data.kv.comp_operator,
                  data.kv.attribute_value, data.kv.value_type)

----------------------------------------------------------------------------
(* class ConditionList *)

_accepted_boolean_operators == {"and", "or"}

\* ConditionList.__init__; conditions is the tuple of positional arguments
ListInit(conditions, operator) ==
    IF operator \notin _accepted_boolean_operators
    THEN Raise("ValueError", "Operator not supported")
    ELSE IF \E i \in 1..Len(conditions) :
                conditions[i].t \notin {"ObjectCondition", "ConditionList"}
    THEN Raise("ValueError", "Invalid condition type")
    ELSE Ok([t |-> "ConditionList",
             operator |-> operator,    \* operator.lower() of "and" or "or"
             conditions |-> conditions])

\* value[index], line 226
Subscript(value, index) ==
    IF value.t = "list"
    THEN IF index + 1 \in 1..Len(value.items)
         THEN Ok(value.items[index + 1])
         ELSE Raise("IndexError", "list index out of range")
    ELSE IF value.t = "str"
    THEN IF index + 1 \in 1..Len(value.s)
         THEN Ok(PyStr(<<value.s[index + 1]>>))
         ELSE Raise("IndexError", "string index out of range")
    ELSE Raise("TypeError", "object is not subscriptable")

\* the truth of a value, as `and` and `or` test it
Truthy(v) ==
    CASE v.t = "bool" -> v.b
      [] v.t = "int" -> v.i # 0
      [] v.t = "str" -> Len(v.s) > 0
      [] v.t = "list" -> Len(v.items) > 0
      [] OTHER -> TRUE

\* the loop of lines 227 to 233 over result_list[from:]
RECURSIVE FoldResults(_, _, _, _)
FoldResults(operator, result_list, from, final_result) ==
    IF from > Len(result_list) THEN Ok(final_result)
    ELSE IF operator = "and"
    THEN FoldResults(operator, result_list, from + 1,
                     IF Truthy(final_result) THEN result_list[from] ELSE final_result)
    ELSE IF operator = "or"
    THEN FoldResults(operator, result_list, from + 1,
                     IF Truthy(final_result) THEN final_result ELSE result_list[from])
    ELSE Raise("ValueError", "Unknown operator")

RECURSIVE IsTrue(_, _)
RECURSIVE CollectResults(_, _, _, _)

\* the loop of lines 222 to 224 going on after a condition that raises
AppendResultSkipFailure(conditions, obj, from, result_list, result) ==
    IF result.ok
    THEN CollectResults(conditions, obj, from + 1, Append(result_list, result.val))
    ELSE CollectResults(conditions, obj, from + 1, result_list)

\* result_list.append(result), line 224, unless the call of line 223 raised
AppendResult(conditions, obj, from, result_list, result) ==
    IF result.ok
    THEN CollectResults(conditions, obj, from + 1, Append(result_list, result.val))
    ELSE result

\* the loop of lines 222 to 224 over conditions[from:]: every result, or
\* the exception of the first condition that raises
CollectResults(conditions, obj, from, result_list) ==
    IF from > Len(conditions) THEN Ok(result_list)
    ELSE AppendResult(conditions, obj, from, result_list,
                      IsTrue(conditions[from], obj))

\* lines 226 to 235: final_result = result_list[0][0], then the loop
CombineResults(operator, result_list) ==
    LET first == Subscript(PyList(result_list), 0)
    IN IF ~first.ok THEN first
       ELSE LET final_result == Subscript(first.val, 0)
            IN IF ~final_result.ok THEN final_result
               ELSE FoldResults(operator, result_list, 2, final_result.val)

\* lines 226 to 235, unless the loop of lines 222 to 224 raised
AfterResults(operator, results) ==
    IF results.ok THEN CombineResults(operator, results.val) ELSE results

\* ConditionList.is_true
ListIsTrue(self, obj) ==
    AfterResults(self.operator, CollectResults(self.conditions, obj, 1, <<>>))

\* condition.is_true(obj), dispatched on the class of the condition
IsTrue(condition, obj) ==
    IF condition.t = "ObjectCondition"
    THEN CondIsTrue(condition, obj)
    ELSE ListIsTrue(condition, obj)

RECURSIVE ToDict(_)

\* ConditionList.dict
ListDict(self) ==
    PyDict([operator |-> self.operator,
            conditions |->
                PyList([i \in 1..Len(self.conditions) |-> ToDict(self.conditions[i])])])

\* condition.dict(), dispatched on the class of the condition
ToDict(condition) ==
    IF condition.t = "ObjectCondition"
    THEN CondDict(condition)
    ELSE ListDict(condition)

\* data.get(key, default)
DictGet(data, key, default) ==
    IF key \in DOMAIN data.kv THEN data.kv[key] ELSE default

\* line 271 testing for the key "comp_operator"
IsConditionEntryByOperator(cond) ==
    cond.t = "dict" /\ "comp_operator" \in DOMAIN cond.kv

\* the test of line 271: which entries are rebuilt as ObjectCondition
IsConditionEntry(cond) == cond.t = "dict" /\ "attribute_name" \in DOMAIN cond.kv

RECURSIVE ListFromJson(_)
RECURSIVE DecodeEntries(_, _, _)

\* one element of the comprehension, unless its from_json raised
AppendDecoded(entries, from, conditions, decoded) ==
    IF decoded.ok
    THEN DecodeEntries(entries, from + 1, Append(conditions, decoded.val))
    ELSE decoded

\* the comprehension of lines 270 to 274 over entries[from:]: every decoded
\* condition, or the exception of the first entry that raises
DecodeEntries(entries, from, conditions) ==
    IF from > Len(entries) THEN Ok(conditions)
    ELSE AppendDecoded(entries, from, conditions,
                       IF IsConditionEntry(entries[from])
                       THEN CondFromJson(entries[from])
                       ELSE ListFromJson(entries[from]))

\* cls(*conditions, operator=operator), line 276, unless the comprehension
\* raised
BuildDecoded(conditions, operator) ==
    IF conditions.ok THEN ListInit(conditions.val, operator) ELSE conditions

\* ConditionList.from_json, for data that is no JSON text
ListFromJson(data) ==
    IF data.t # "dict"
    THEN Raise("ValueError", "Input must be a JSON string or a dictionary.")
    ELSE BuildDecoded(
             DecodeEntries(DictGet(data, "conditions", PyList(<<>>)).items, 1, <<>>),
             DictGet(data, "operator", "and"))

----------------------------------------------------------------------------
(* The inputs of the calls *)

TxtX == <<"x">>
TxtXY == <<"x", " ", "y">>
Txt5 == <<"5">>
TxtNeg3 == <<"-", "3">>
Txt2p5 == <<"2", ".", "5">>
TxtStamp == <<"8", "6", "4", "0", "0", ".", "5">>
TxtDate == <<"2", "0", "2", "2", "-", "0", "6", "-", "0", "1">>
TxtDateTime == TxtDate \o <<"T", "1", "0", ":", "3", "0", ":", "0", "0">>

\* the time zones the process may run in
UtcOffsets == {-18000, 0, 3600}

\* an object with no attribute
Bare == [n \in {} |-> None]

\* arguments of ObjectCondition(...) for a condition used on its own
CondNames == {"a"}
CondOperators == _accepted_comp_operators \cup {"contains"}
CondValueTypes == _accepted_value_types \cup {"string"}
CondRaws ==
    {PyStr(TxtX), PyStr(InText), PyStr(Txt5), PyStr(TxtNeg3), PyStr(Txt2p5),
     PyStr(TxtStamp), PyStr(TxtDate), PyStr(TxtDateTime), PyInt(5)}
CondArgs == CondNames \X CondOperators \X CondRaws \X CondValueTypes

\* the objects a condition used on its own is evaluated on
CondObjects ==
    {Bare}
        \cup {"a" :> v : v \in
                {PyStr(TxtX), PyStr(InText), PyStr(TxtXY), PyList(<<PyStr(TxtX)>>),
                 PyInt(5), PyInt(-3), PyBool(TRUE), PyFloat(FALSE, 25, 1),
                 PyDate(2022, 6, 1), PyDate(1970, 1, 1),
                 PyDateTime(2022, 6, 1, 10, 30, 0, 0),
                 PyDateTime(2022, 6, 1, 0, 0, 0, 0),
                 PyTime(10, 30, 0, 0)}}

\* arguments of ObjectCondition(...) for the conditions put into lists
ListCondArgs ==
    {<<"a", "==", PyStr(TxtX), "str">>,
     <<"b", "<", PyStr(Txt5), "int">>,
     <<"a", "!=", PyStr(TxtDateTime), "datetime">>}

\* the objects a list is evaluated on
ListObjects ==
    {("a" :> PyStr(TxtX)) @@ ("b" :> PyInt(3)),
     ("a" :> PyStr(InText)) @@ ("b" :> PyInt(7)),
     "b" :> PyInt(3),
     ("a" :> PyDateTime(2022, 6, 1, 10, 30, 0, 0)) @@ ("b" :> PyBool(TRUE))}

\* the operator argument of ConditionList(...)
ListOperators == {"and", "or", "AND"}

\* a positional argument of ConditionList(...) that is no condition
Stray == PyStr(TxtX)


\* a dictionary without one of its keys
Without(kv, key) == [k \in (DOMAIN kv) \ {key} |-> kv[k]]

\* the dictionary of a condition, as ObjectCondition.dict writes it
FullEntry ==
    [attribute_name |-> "a", comp_operator |-> "==",
     attribute_value |-> PyStr(TxtX), value_type |-> "str"]

\* what from_json is given in place of the dictionary of a condition: the
\* dictionary, the dictionary less one key or with one key more, and a
\* value that is no dictionary
ConditionInputs ==
    {PyDict(FullEntry), PyInt(5),
     PyDict(FullEntry @@ ("conditions" :> PyList(<<>>)))}
        \cup {PyDict(Without(FullEntry, k)) : k \in DOMAIN FullEntry}

\* the entries found under "conditions": the above and dictionaries of lists
EntryPool ==
    ConditionInputs
        \cup {PyDict(Bare),
              PyDict([operator |-> "or", conditions |-> PyList(<<PyDict(FullEntry)>>)]),
              PyDict("conditions" :>
                        PyList(<<PyDict(Without(FullEntry, "attribute_name"))>>))}

SeqsUpTo(S, n) == UNION {[1..k -> S] : k \in 0..n}

\* what ConditionList.from_json is given: any operator or none, any entries
\* or none
ListInputs ==
    {PyDict(o @@ c) :
        o \in {Bare} \cup {"operator" :> x : x \in {"and", "or", "xor"}},
        c \in {Bare} \cup {"conditions" :> PyList(es) :
                                es \in SeqsUpTo(EntryPool, MaxEntries)}}

----------------------------------------------------------------------------
(* The caller *)

NoCall == [call |-> "none"]

Init ==
    /\ tz \in UtcOffsets
    /\ held = <<>>
    /\ last = NoCall

RECURSIVE Size(_)
RECURSIVE SizeAll(_)

\* the number of conditions and lists in a condition or list
Size(node) ==
    IF node.t = "ConditionList" THEN 1 + SizeAll(node.conditions) ELSE 1

SizeAll(nodes) ==
    IF Len(nodes) = 0 THEN 0 ELSE Size(nodes[1]) + SizeAll(Tail(nodes))

ConstructorCall(args) ==
    [call |-> "ObjectCondition",
     attribute_name |-> args[1], comp_operator |-> args[2],
     attribute_value |-> args[3], value_type |-> args[4],
     ret |-> CondInit(args[1], args[2], args[3], args[4])]

\* c = ObjectCondition(...), the first call of a caller
NewCondition ==
    \E args \in CondArgs :
        /\ last = NoCall
        /\ last' = ConstructorCall(args)
        /\ held' = IF last'.ret.ok THEN <<last'.ret.val>> ELSE held
        /\ UNCHANGED tz

\* c = ObjectCondition(...), kept with what is held
AddCondition ==
    \E args \in ListCondArgs :
        /\ SizeAll(held) < MaxNodes
        /\ last' = ConstructorCall(args)
        /\ held' = IF last'.ret.ok THEN Append(held, last'.ret.val) ELSE held
        /\ UNCHANGED tz

\* l = ConditionList(*newest k held, operator=...), in place of the k
NewList ==
    \E k \in 0..Len(held), operator \in ListOperators, stray \in BOOLEAN :
        LET conditions == SubSeq(held, Len(held) - k + 1, Len(held))
                              \o (IF stray THEN <<Stray>> ELSE <<>>)
        IN /\ SizeAll(held) < MaxNodes
           /\ last' = [call |-> "ConditionList", conditions |-> conditions,
                       operator |-> operator,
                       ret |-> ListInit(conditions, operator)]
           /\ held' = IF last'.ret.ok
                      THEN Append(SubSeq(held, 1, Len(held) - k), last'.ret.val)
                      ELSE held
           /\ UNCHANGED tz

\* c.is_true(obj)
EvalCondition ==
    \E i \in 1..Len(held), obj \in CondObjects :
        /\ held[i].t = "ObjectCondition"
        /\ last' = [call |-> "ObjectCondition.is_true", self |-> held[i],
                    obj |-> obj, ret |-> CondIsTrue(held[i], obj)]
        /\ UNCHANGED <<tz, held>>

\* l.is_true(obj)
EvalList ==
    \E i \in 1..Len(held), obj \in ListObjects :
        /\ held[i].t = "ConditionList"
        /\ last' = [call |-> "ConditionList.is_true", self |-> held[i],
                    obj |-> obj, ret |-> ListIsTrue(held[i], obj)]
        /\ UNCHANGED <<tz, held>>

\* d = c.dict()
DictCondition ==
    \E i \in 1..Len(held) :
        /\ held[i].t = "ObjectCondition"
        /\ last' = [call |-> "ObjectCondition.dict", self |-> held[i],
                    ret |-> Ok(CondDict(held[i]))]
        /\ UNCHANGED <<tz, held>>

\* d = l.dict()
DictList ==
    \E i \in 1..Len(held) :
        /\ held[i].t = "ConditionList"
        /\ last' = [call |-> "ConditionList.dict", self |-> held[i],
                    ret |-> Ok(ListDict(held[i]))]
        /\ UNCHANGED <<tz, held>>

\* ObjectCondition.from_json(d), for the d = c.dict() just taken
RebuildCondition ==
    /\ last.call = "ObjectCondition.dict"
    /\ last' = [call |-> "ObjectCondition.from_json", origin |-> last.self,
                data |-> last.ret.val, ret |-> CondFromJson(last.ret.val)]
    /\ UNCHANGED <<tz, held>>

\* ConditionList.from_json(d), for the d = l.dict() just taken
RebuildList ==
    /\ last.call = "ConditionList.dict"
    /\ last' = [call |-> "ConditionList.from_json", origin |-> last.self,
                data |-> last.ret.val, ret |-> ListFromJson(last.ret.val)]
    /\ UNCHANGED <<tz, held>>

\* ObjectCondition.from_json(data), for data from elsewhere, the first call
\* of a caller
DecodeCondition ==
    \E data \in ConditionInputs :
        /\ last = NoCall
        /\ last' = [call |-> "ObjectCondition.from_json", origin |-> None,
                    data |-> data, ret |-> CondFromJson(data)]
        /\ UNCHANGED <<tz, held>>

\* ConditionList.from_json(data), for data from elsewhere, the first call
\* of a caller
DecodeList ==
    \E data \in ListInputs :
        /\ last = NoCall
        /\ last' = [call |-> "ConditionList.from_json", origin |-> None,
                    data |-> data, ret |-> ListFromJson(data)]
        /\ UNCHANGED <<tz, held>>

\* a caller that builds lists of conditions, evaluates and serialises them
Next == AddCondition \/ NewList \/ EvalList \/ DictList \/ RebuildList

Spec == Init /\ [][Next]_vars

\* a caller that works with one condition at a time
NextCond == NewCondition \/ EvalCondition \/ DictCondition \/ RebuildCondition

SpecCond == Init /\ [][NextCond]_vars

\* a caller that decodes dictionaries it did not write
NextDecode == DecodeCondition \/ DecodeList

SpecDecode == Init /\ [][NextDecode]_vars

----------------------------------------------------------------------------
(* Properties of a condition on its own, under SpecCond *)

\* C1: ObjectCondition(...) with an accepted value type and a raw value that
\* converts to it succeeds if and only if the operator is legal for the
\* type: ==, !=, in, not in for str; <, >, <=, >=, ==, != for int, float,
\* date, datetime and time.  Otherwise it raises the unsupported-operator
\* ValueError and the caller holds no condition.
C1_OperatorLegality ==
    LET forStrings == {"==", "!=", "in", "not in"}
        forNumbers == {"<", ">", "<=", ">=", "==", "!="}
        legal == IF last.value_type = "str" THEN forStrings ELSE forNumbers
        unsupported == {"Comp operators not supported",
                        "Comp operator not supported for strings",
                        "Comp operator not supported for numbers"}
    IN (/\ last.call = "ObjectCondition"
        /\ last.value_type \in {"str", "int", "float", "date", "datetime", "time"}
        /\ ConvertValue(last.attribute_value, last.value_type).ok)
       => IF last.comp_operator \in legal
          THEN /\ last.ret.ok
               /\ last.ret.val.t = "ObjectCondition"
               /\ last.ret.val.comp_operator = last.comp_operator
               /\ last.ret.val.value_type = last.value_type
               /\ held = <<last.ret.val>>
          ELSE /\ ~last.ret.ok
               /\ last.ret.exc = "ValueError"
               /\ last.ret.msg \in unsupported
               /\ held = <<>>

\* ObjectCondition("a", "in", "5", value_type="int") has raised the
\* unsupported-operator error
C1_Witness ==
    /\ last.call = "ObjectCondition"
    /\ last.comp_operator = "in"
    /\ last.value_type = "int"
    /\ last.attribute_value = PyStr(Txt5)
    /\ ~last.ret.ok
    /\ last.ret.msg = "Comp operator not supported for numbers"

\* C3: ObjectCondition.from_json(c.dict()) succeeds for every condition c
\* and gives a condition with the same attribute name, operator, value type
\* and value, which is_true evaluates as it evaluates c on every object.
C3_LeafRoundTrip ==
    (last.call = "ObjectCondition.from_json" /\ last.origin.t = "ObjectCondition")
       => /\ last.ret.ok
          /\ last.ret.val.attribute_name = last.origin.attribute_name
          /\ last.ret.val.comp_operator = last.origin.comp_operator
          /\ last.ret.val.value_type = last.origin.value_type
          /\ last.ret.val.attribute_value = last.origin.attribute_value
          /\ \A obj \in CondObjects :
                CondIsTrue(last.ret.val, obj) = CondIsTrue(last.origin, obj)

\* C5, as claimed: is_true raises the type-mismatch TypeError whenever the
\* class of the attribute is not exactly the class of the stored value.
C5_ExactTypeRequired ==
    (/\ last.call = "ObjectCondition.is_true"
     /\ last.self.attribute_name \in DOMAIN last.obj
     /\ last.obj[last.self.attribute_name].t # last.self.attribute_value.t)
       => /\ ~last.ret.ok
          /\ last.ret.exc = "TypeError"
          /\ last.ret.msg = "attribute type is not type"

\* C5, amended: is_true raises the type-mismatch TypeError exactly when the
\* attribute is no instance of the class of the stored value, a subclass
\* counting as a match (bool for int, datetime for date).  A date condition
\* on a datetime attribute returns false for ==, true for != and raises the
\* TypeError of the comparison for <, >, <= and >=; on a date attribute
\* equal to the bound, <= returns true.
C5_InstanceRequired ==
    LET value == last.obj[last.self.attribute_name]
        bound == last.self.attribute_value
        op == last.self.comp_operator
        derived == {<<"bool", "int">>, <<"datetime", "date">>}
        matches == value.t = bound.t \/ <<value.t, bound.t>> \in derived
        mismatch == /\ ~last.ret.ok
                    /\ last.ret.exc = "TypeError"
                    /\ last.ret.msg = "attribute type is not type"
    IN (/\ last.call = "ObjectCondition.is_true"
        /\ last.self.attribute_name \in DOMAIN last.obj)
       => /\ mismatch <=> ~matches
          /\ (bound.t = "date" /\ value.t = "datetime")
                => CASE op = "==" -> last.ret = Ok(PyBool(FALSE))
                     [] op = "!=" -> last.ret = Ok(PyBool(TRUE))
                     [] OTHER -> /\ ~last.ret.ok
                                 /\ last.ret.exc = "TypeError"
                                 /\ last.ret.msg # "attribute type is not type"
          /\ (bound.t = "date" /\ value = bound /\ op = "<=")
                => last.ret = Ok(PyBool(TRUE))

\* a date condition with == has returned false on a datetime attribute
C5_Witness ==
    /\ last.call = "ObjectCondition.is_true"
    /\ last.self.attribute_name \in DOMAIN last.obj
    /\ last.self.attribute_value.t = "date"
    /\ last.obj[last.self.attribute_name].t = "datetime"
    /\ last.self.comp_operator = "=="
    /\ last.ret = Ok(PyBool(FALSE))

\* C7: with operator in, is_true returns whether the stored value occurs
\* within the attribute, a string or a list; with not in, the negation.
C7_InIsContainment ==
    LET value == last.obj[last.self.attribute_name]
        bound == last.self.attribute_value
        occurs ==
            IF value.t = "list"
            THEN \E i \in 1..Len(value.items) : value.items[i] = bound
            ELSE \E i \in 0..(Len(value.s) - Len(bound.s)) :
                    SubSeq(value.s, i + 1, i + Len(bound.s)) = bound.s
    IN (/\ last.call = "ObjectCondition.is_true"
        /\ last.self.comp_operator \in {"in", "not in"}
        /\ last.self.attribute_name \in DOMAIN last.obj
        /\ value.t \in {"str", "list"})
       => last.ret = Ok(PyBool(occurs <=> last.self.comp_operator = "in"))

----------------------------------------------------------------------------
(* Properties of lists of conditions, under Spec *)

\* C2: is_true of a list with at least one condition, all of which evaluate
\* without error, returns the fold of their results under the operator of
\* the list: with and, whether all are true; with or, whether one is true.
C2_FoldOfChildren ==
    LET kids == last.self.conditions
        value(i) == IsTrue(kids[i], last.obj)
    IN (/\ last.call = "ConditionList.is_true"
        /\ Len(kids) >= 1
        /\ \A i \in 1..Len(kids) : value(i).ok)
       => last.ret = Ok(PyBool(IF last.self.operator = "and"
                               THEN \A i \in 1..Len(kids) : value(i).val.b
                               ELSE \E i \in 1..Len(kids) : value(i).val.b))

\* C4: ConditionList.from_json(l.dict()) succeeds for every list l and gives
\* a list with the same operator and the same conditions in the same order,
\* at every depth, which is_true evaluates as it evaluates l on every object.
C4_TreeRoundTrip ==
    (last.call = "ConditionList.from_json" /\ last.origin.t = "ConditionList")
       => /\ last.ret.ok
          /\ last.ret.val = last.origin
          /\ \A obj \in ListObjects :
                ListIsTrue(last.ret.val, obj) = ListIsTrue(last.origin, obj)

\* C6: is_true of a list without conditions raises EmptyConditionTree, not
\* an IndexError.
C6_EmptyTreeError ==
    (last.call = "ConditionList.is_true" /\ Len(last.self.conditions) = 0)
       => ~last.ret.ok /\ last.ret.exc = "EmptyConditionTree"

\* C10: is_true of a list evaluates its conditions in order and does not
\* stop early: when a condition raises, the call raises the exception of the
\* first such condition and returns no boolean, whatever the results of the
\* conditions before it.
C10_FirstFailureSurfaces ==
    LET kids == last.self.conditions
        failing == {i \in 1..Len(kids) : ~IsTrue(kids[i], last.obj).ok}
        first == CHOOSE i \in failing : \A j \in failing : i <= j
    IN (last.call = "ConditionList.is_true" /\ failing # {})
       => /\ ~last.ret.ok
          /\ last.ret = IsTrue(kids[first], last.obj)

\* an or-list whose first condition is true and whose second raises
\* AttributeError has raised that AttributeError
C10_Witness ==
    /\ last.call = "ConditionList.is_true"
    /\ last.self.operator = "or"
    /\ Len(last.self.conditions) = 2
    /\ IsTrue(last.self.conditions[1], last.obj) = Ok(PyBool(TRUE))
    /\ ~IsTrue(last.self.conditions[2], last.obj).ok
    /\ ~last.ret.ok
    /\ last.ret.exc = "AttributeError"

----------------------------------------------------------------------------
(* Properties of from_json on dictionaries from elsewhere, under SpecDecode *)

\* C8, as claimed: from_json rejects the dictionary of a condition that
\* lacks its operator, value or value type, and the dictionary of a list
\* that lacks its operator or its conditions.
C8_MissingKeyRejected ==
    /\ (/\ last.call = "ObjectCondition.from_json"
        /\ last.data.t = "dict"
        /\ {"comp_operator", "attribute_value", "value_type"}
              \ DOMAIN last.data.kv # {})
          => ~last.ret.ok
    /\ (/\ last.call = "ConditionList.from_json"
        /\ last.data.t = "dict"
        /\ {"operator", "conditions"} \ DOMAIN last.data.kv # {})
          => ~last.ret.ok

\* C8, amended: from_json rejects with a KeyError the dictionary of a
\* condition that lacks its comp_operator, attribute_value or value_type,
\* alone or as an entry of a list, and produces no object.  The dictionary
\* of a list that lacks its operator is decoded as with operator "and", and
\* one that lacks its conditions as with no conditions: the empty
\* dictionary decodes to an empty and-list.
C8_MissingKeyHandling ==
    LET required == {"comp_operator", "attribute_value", "value_type"}
        lacking(d) == d.t = "dict" /\ required \ DOMAIN d.kv # {}
        named(d) == d.t = "dict" /\ "attribute_name" \in DOMAIN d.kv
        entries == IF "conditions" \in DOMAIN last.data.kv
                   THEN last.data.kv.conditions.items ELSE <<>>
        filled == PyDict(last.data.kv @@ [operator |-> "and",
                                          conditions |-> PyList(<<>>)])
    IN /\ (/\ last.call = "ObjectCondition.from_json"
           /\ named(last.data)
           /\ lacking(last.data))
             => /\ ~last.ret.ok
                /\ last.ret.exc = "KeyError"
                /\ last.ret.msg \in required \ DOMAIN last.data.kv
       /\ (last.call = "ConditionList.from_json" /\ last.data.t = "dict")
             => /\ (\E i \in 1..Len(entries) :
                        named(entries[i]) /\ lacking(entries[i]))
                      => ~last.ret.ok
                /\ last.ret = ListFromJson(filled)
                /\ DOMAIN last.data.kv = {}
                      => last.ret = Ok([t |-> "ConditionList",
                                        operator |-> "and",
                                        conditions |-> <<>>])

\* ConditionList.from_json({}) has returned an empty and-list
C8_Witness ==
    /\ last.call = "ConditionList.from_json"
    /\ last.data.t = "dict"
    /\ DOMAIN last.data.kv = {}
    /\ last.ret.ok
    /\ last.ret.val.operator = "and"
    /\ last.ret.val.conditions = <<>>

\* C9: ConditionList.from_json rebuilds an entry as an ObjectCondition if
\* and only if the entry has the key attribute_name, whatever its other
\* keys, and otherwise decodes it as a nested ConditionList, at every depth;
\* the decoded conditions are in the order of the entries, and a failure is
\* that of the first entry that fails.
C9_DispatchOnAttributeName ==
    LET named(e) == e.t = "dict" /\ "attribute_name" \in DOMAIN e.kv
        entriesOf(d) == IF "conditions" \in DOMAIN d.kv
                        THEN d.kv.conditions.items ELSE <<>>
        decoded(e) == IF named(e) THEN CondFromJson(e) ELSE ListFromJson(e)
        entries == entriesOf(last.data)
        failing == {i \in 1..Len(entries) : ~decoded(entries[i]).ok}
        first == CHOOSE i \in failing : \A j \in failing : i <= j
        RECURSIVE Mirrors(_, _)
        Mirrors(node, d) ==
            /\ node.t = "ConditionList"
            /\ Len(node.conditions) = Len(entriesOf(d))
            /\ \A i \in 1..Len(node.conditions) :
                  IF named(entriesOf(d)[i])
                  THEN /\ node.conditions[i].t = "ObjectCondition"
                       /\ Ok(node.conditions[i]) = CondFromJson(entriesOf(d)[i])
                  ELSE Mirrors(node.conditions[i], entriesOf(d)[i])
    IN (last.call = "ConditionList.from_json" /\ last.data.t = "dict")
       => IF failing # {}
          THEN last.ret = decoded(entries[first])
          ELSE last.ret.ok => Mirrors(last.ret.val, last.data)

\* a dictionary whose first entry has the keys of a condition but no
\* attribute_name and whose second entry has attribute_name and conditions
\* has been decoded to a nested list followed by a condition
C9_Witness ==
    /\ last.call = "ConditionList.from_json"
    /\ last.data.t = "dict"
    /\ "conditions" \in DOMAIN last.data.kv
    /\ Len(last.data.kv.conditions.items) = 2
    /\ last.data.kv.conditions.items[1] = PyDict(Without(FullEntry, "attribute_name"))
    /\ last.data.kv.conditions.items[2] =
          PyDict(FullEntry @@ ("conditions" :> PyList(<<>>)))
    /\ last.ret.ok
    /\ last.ret.val.conditions[1].t = "ConditionList"
    /\ last.ret.val.conditions[2].t = "ObjectCondition"

====
